---- MODULE Spec2Model ----
(***************************************************************************)
(* Model of the MIDAS client: the session (MidasSession: its construction  *)
(* and its token), the retrying transport (session.get_csv), the decoder   *)
(* of the archive's dialect (_read_badc_csv), the metadata cache           *)
(* (_fetch_meta), the single station-year download                         *)
(* (download_station_year) and the bulk orchestration loop                 *)
(* (download_locations), in both revisions kept in the repository          *)
(* (midas_client/midas.py and weather/midas.py).                           *)
(*                                                                         *)
(* A behaviour is one process.  Four specifications share the variables:   *)
(* Spec (download_locations runs and download_station_year calls),         *)
(* SpecCsv (get_csv calls), SpecDecode (_read_badc_csv calls) and          *)
(* SpecSession (MidasSession constructions and the requests made on them). *)
(*                                                                         *)
(* session.py defines get_csv with a self parameter at module level; it is *)
(* modelled as the method of the session that midas.py calls.  The         *)
(* archive's station metadata is a fixed snapshot with numeric fields, all *)
(* stations and query points lie on one meridian (where the haversine      *)
(* distance is the latitude difference), query point ids are distinct, and *)
(* table and year lists hold no entry twice.  What the transport and the   *)
(* authentication endpoint answer to each request is chosen freely.        *)
(***************************************************************************)
EXTENDS Integers, Sequences, FiniteSets, TLC

(***************************************************************************)
(* Bounds of the model.                                                    *)
(***************************************************************************)
MaxRetriesArg == 3      \* get_csv is called with max_retries in 0..MaxRetriesArg
MaxBackoff == 2         \* ... and backoff_factor in 1..MaxBackoff (time units)
MaxRuns == 1            \* download_locations runs per process, each preceded by any
                        \* number of direct download_station_year calls
MaxK == 2               \* k in 1..MaxK, and the default
MaxSessions == 2        \* MidasSession constructions per process
MaxRequests == 2        \* get_csv calls made on the sessions of a process
MaxPreamble == 2        \* preamble lines of a decoded text
MaxRows == 2            \* data rows of a decoded text

(***************************************************************************)
(* Program constants.                                                      *)
(***************************************************************************)
DefaultMaxRetries == 3
DefaultBackoff == 1
DefaultK == 3

VARIABLES
    call,       \* a direct call of get_csv: its arguments, the transport's answers, its result
    parse,      \* a direct call of _read_badc_csv: the text and what it decodes to
    auth,       \* os.environ["CEDA_TOKEN"], the MidasSession objects and their traffic
    module,     \* which revision the process imported: "midas_client" or "weather"
    META_CACHE, \* _META_CACHE: the tables (= resolved metadata URLs) with a cached snapshot
    hist,       \* process-lifetime history of metadata traffic
    pc,         \* position of the current download_locations run
    args,       \* arguments of the current run
    ti,         \* index of the table being processed (for tbl in tables)
    yi,         \* index of the year being processed (for yr in years)
    rows,       \* rows: (loc_id, year) -> {column -> value}
    pending,    \* the members of nearest_srcs not yet iterated
    frames,     \* frames: station ids of the non-empty station-year frames, in order
    df,         \* the local variable df: the station-year frame fetched last
    meta_num,   \* the local variable meta_num: the numeric metadata rows of the table
    run,        \* what the current run did: fetches, files written, errors
    nruns       \* download_locations runs started

\* the variables of midas.py
mvars == <<module, META_CACHE, hist, pc, args, ti, yi, rows, pending, frames, df,
           meta_num, run, nruns>>
\* all variables but call
ovars == <<parse, auth, module, META_CACHE, hist, pc, args, ti, yi, rows, pending,
           frames, df, meta_num, run, nruns>>
vars == <<call, parse, auth, module, META_CACHE, hist, pc, args, ti, yi, rows, pending,
          frames, df, meta_num, run, nruns>>

RECURSIVE pow2(_)
pow2(n) == IF n <= 0 THEN 1 ELSE 2 * pow2(n - 1)

Range(s) == {s[i] : i \in 1..Len(s)}

(***************************************************************************)
(* The archive's dialect.  A text is a sequence of lines, a line a         *)
(* sequence of characters (the line break left out).                       *)
(***************************************************************************)
UpperCase == <<"A", "B", "C", "D", "E", "F", "G", "H", "I", "J", "K", "L", "M", "N", "O", "P", "Q", "R", "S", "T", "U", "V", "W", "X", "Y", "Z">>
LowerCase == <<"a", "b", "c", "d", "e", "f", "g", "h", "i", "j", "k", "l", "m", "n", "o", "p", "q", "r", "s", "t", "u", "v", "w", "x", "y", "z">>

\* str.lower() of one character
LowerChar(c) ==
    IF \E i \in 1..Len(UpperCase) : UpperCase[i] = c
    THEN LowerCase[CHOOSE i \in 1..Len(UpperCase) : UpperCase[i] = c]
    ELSE c

\* str.lower()
lower(s) == [i \in 1..Len(s) |-> LowerChar(s[i])]

\* the characters str.strip() removes
IsSpace(c) == c \in {" ", "\t"}

RECURSIVE lstrip(_)
lstrip(s) == IF s # <<>> /\ IsSpace(Head(s)) THEN lstrip(Tail(s)) ELSE s

RECURSIVE rstrip(_)
rstrip(s) ==
    IF s # <<>> /\ IsSpace(s[Len(s)]) THEN rstrip(SubSeq(s, 1, Len(s) - 1)) ELSE s

\* str.strip()
strip(s) == rstrip(lstrip(s))

\* str.split(sep)
RECURSIVE split(_, _)
split(s, sep) ==
    LET at == {i \in 1..Len(s) : s[i] = sep}
    IN  IF at = {} THEN <<s>>
        ELSE LET i == CHOOSE j \in at : \A l \in at : j <= l
             IN  <<SubSeq(s, 1, i - 1)>> \o split(SubSeq(s, i + 1, Len(s)), sep)

Marker == <<"d", "a", "t", "a">>

\* line.strip().lower() == "data"
IsMarker(line) == lower(strip(line)) = Marker

\* names = [c.strip().lower() for c in header.split(sep)]
HeaderNames(header) ==
    LET cs == split(header, ",") IN [i \in 1..Len(cs) |-> lower(strip(cs[i]))]

\* enumerate(buf): n of the first marker line, counted from 0; -1 if there is none
MarkerIndex(raw) ==
    LET hits == {n \in 1..Len(raw) : IsMarker(raw[n])}
    IN  IF hits = {} THEN -1 ELSE (CHOOSE n \in hits : \A m \in hits : n <= m) - 1

\* start = n + 2: the lines read_csv skips, the marker and the header line included
skiprows(n) == n + 2

\* a line read_csv passes over: it holds nothing but white space
IsBlank(line) == strip(line) = <<>>

iloc_all(rws) == rws

\* .iloc[:-1]
iloc_but_last(rws) == IF rws = <<>> THEN <<>> ELSE SubSeq(rws, 1, Len(rws) - 1)

\* pd.read_csv(buf, sep=sep, names=names, skiprows=start): the fields of the
\* lines after the first start ones, blank lines passed over
read_csv(raw, start) ==
    LET body == IF start >= Len(raw) THEN <<>> ELSE SubSeq(raw, start + 1, Len(raw))
        kept == SelectSeq(body, LAMBDA line : ~IsBlank(line))
    IN  [i \in 1..Len(kept) |-> split(kept[i], ",")]

\* session._read_badc_csv
_read_badc_csv(raw) ==
    LET n == MarkerIndex(raw)
    IN  IF n = -1
        THEN [ok |-> FALSE, exc |-> "ValueError", names |-> <<>>, rows |-> <<>>]
        ELSE IF n + 1 = Len(raw)
        THEN [ok |-> FALSE, exc |-> "StopIteration", names |-> <<>>, rows |-> <<>>]
        ELSE [ok |-> TRUE, exc |-> "none",
              names |-> HeaderNames(raw[n + 2]),
              rows |-> iloc_but_last(read_csv(raw, skiprows(n)))]

(***************************************************************************)
(* The transport.  A response is [status, text]; status 0 stands for       *)
(* session.get raising a requests exception (connection error, timeout).   *)
(***************************************************************************)
\* lines of the texts the archive serves
PreambleLine == <<"C", "o", "n", "v", "e", "n", "t", "i", "o", "n", "s", ",", "G", ",", "B", "A", "D", "C", "-", "C", "S", "V", ",", "1">>
MarkerLine == <<" ", "D", "A", "T", "A", " ">>
HeaderLine == <<"S", "r", "c", "_", "I", "d", ",", " ", "O", "b", "_", "T", "i", "m", "e", " ">>
Row1 == <<"1", ",", "a">>
Row2 == <<"2", ",", "b">>
FooterLine == <<"e", "n", "d", " ", "d", "a", "t", "a">>

TextRows == <<PreambleLine, MarkerLine, HeaderLine, Row1, Row2, FooterLine>>
TextNoRows == <<PreambleLine, Marker, HeaderLine, FooterLine>>
TextNoMarker == <<PreambleLine, HeaderLine, Row1, FooterLine>>
TextError == <<<<"e", "r", "r", "o", "r", " ", "p", "a", "g", "e">>>>

Responses ==
    {[status |-> 200, text |-> t] : t \in {TextRows, TextNoRows, TextNoMarker}}
    \cup {[status |-> s, text |-> TextError] : s \in {0, 403, 404, 500, 503}}

\* response.raise_for_status() raises HTTPError
RaisesForStatus(status) == 400 <= status /\ status < 600

\* the except clause catches it: a requests exception or an HTTPError
IsRequestException(resp) == resp.status = 0 \/ RaisesForStatus(resp.status)

IsEmptyStatus_only404(status) == status = 404

\* response.status_code in (404, 500)
IsEmptyStatus(status) == status \in {404, 500}

sleep_time_from2(backoff_factor, attempt) == backoff_factor * pow2(attempt)

\* sleep_time = backoff_factor * (2 ** (attempt - 1))
sleep_time(backoff_factor, attempt) == backoff_factor * pow2(attempt - 1)

RetriesExhausted_late(attempt, max_retries) == attempt > max_retries

\* if attempt >= max_retries: raise
RetriesExhausted(attempt, max_retries) == attempt >= max_retries

CsvResult(outcome, exc, rws, gets, delays, last) ==
    [outcome |-> outcome, exc |-> exc, rows |-> rws, gets |-> gets,
     delays |-> delays, last |-> last]

Caught_any(exc) == TRUE

\* "except requests.exceptions.RequestException": the exceptions the clause catches
Caught(exc) == exc = "RequestException"

\* one pass of the while loop of get_csv, with attempt failures so far
RECURSIVE get_csv_loop(_, _, _, _, _)
get_csv_loop(resps, max_retries, backoff_factor, attempt, delays) ==
    IF ~(attempt < max_retries)
    THEN CsvResult("empty", "none", <<>>, attempt, delays, -1)
    ELSE
      LET gets == attempt + 1
          resp == resps[gets]
          parsed == _read_badc_csv(resp.text)
          \* what the try block raises
          raised == IF IsRequestException(resp) THEN "RequestException"
                    ELSE IF parsed.ok THEN "none" ELSE parsed.exc
      IN  IF resp.status # 0 /\ IsEmptyStatus(resp.status)
          THEN CsvResult("empty", "none", <<>>, gets, delays, resp.status)
          ELSE IF raised = "none"
          THEN CsvResult("table", "none", parsed.rows, gets, delays, resp.status)
          ELSE IF ~Caught(raised)
          THEN CsvResult("raise", raised, <<>>, gets, delays, resp.status)
          ELSE IF RetriesExhausted(attempt + 1, max_retries)
          THEN CsvResult("raise", raised, <<>>, gets, delays, resp.status)
          ELSE get_csv_loop(resps, max_retries, backoff_factor, attempt + 1,
                   Append(delays, sleep_time(backoff_factor, attempt + 1)))

\* MidasSession.get_csv(url, max_retries, backoff_factor); resps[i] answers the i-th GET
get_csv(resps, max_retries, backoff_factor) ==
    get_csv_loop(resps, max_retries, backoff_factor, 0, <<>>)

(***************************************************************************)
(* Direct calls of get_csv (specification SpecCsv).                        *)
(***************************************************************************)
NoResult == CsvResult("pending", "none", <<>>, 0, <<>>, -1)

CallGetCsv ==
    /\ call.state = "pending"
    /\ call' = [call EXCEPT
                  !.state = "returned",
                  !.result = get_csv(call.resps, call.max_retries, call.backoff_factor)]
    /\ UNCHANGED ovars

(***************************************************************************)
(* Configuration and archive content.                                      *)
(***************************************************************************)
\* settings.midas.tables: the configured table names
ConfiguredTables == {"TD", "RD"}

\* the station metadata the archive holds for a table: rows of
\* src_id, station_latitude (all stations on one meridian), first_year, last_year
StationRow(src_id, lat, first_year, last_year) ==
    [src_id |-> src_id, station_latitude |-> lat,
     first_year |-> first_year, last_year |-> last_year]

ArchiveMeta(tbl) ==
    IF tbl = "TD"
    THEN <<StationRow(1, 2, 1, 1), StationRow(2, 5, 1, 3),
           StationRow(3, 9, 2, 3), StationRow(5, 20, 1, 3)>>
    ELSE <<StationRow(4, 1, 2, 2)>>

\* str() of a src_id: taken from a whole row (a float Series) it prints as "n.0",
\* taken from the integer first column it prints as "n"
StrOfRowValue(n) == [num |-> n, form |-> "n.0"]
StrOfCell(n) == [num |-> n, form |-> "n"]

(***************************************************************************)
(* Nearest-station search.                                                 *)
(***************************************************************************)
good_mask_started(row, yr) == row.first_year <= yr

\* good_mask = (meta_num.first_year <= yr) & (meta_num.last_year >= yr)
good_mask(row, yr) == row.first_year <= yr /\ row.last_year >= yr

\* sub_meta = meta_num[good_mask]
sub_meta(mn, yr) == SelectSeq(mn, LAMBDA row : good_mask(row, yr))

\* haversine distance of two points of one meridian: the latitude difference
haversine(lat1, lat2) == IF lat1 >= lat2 THEN lat1 - lat2 ELSE lat2 - lat1

\* the row indices of sub in S, nearest to lat first
RECURSIVE Ranked(_, _, _)
Ranked(sub, lat, S) ==
    IF S = {} THEN <<>>
    ELSE LET best == CHOOSE i \in S : \A j \in S :
                        \/ haversine(sub[i].station_latitude, lat)
                             < haversine(sub[j].station_latitude, lat)
                        \/ /\ haversine(sub[i].station_latitude, lat)
                                = haversine(sub[j].station_latitude, lat)
                           /\ i <= j
         IN  <<best>> \o Ranked(sub, lat, S \ {best})

\* sub_tree.query(locs_rad, k): fails when k exceeds the number of indexed stations
QueryFails(sub, k) == k > Len(sub)

\* idxs[loc_idx, :] for one location
query(sub, lat, k) == SubSeq(Ranked(sub, lat, 1..Len(sub)), 1, k)

\* nearest_station = str(sub_meta.iloc[idxs[loc_idx, 0]]["src_id"])
nearest_station(sub, lat, k) == StrOfRowValue(sub[query(sub, lat, k)[1]].src_id)

nearest_srcs_per_point(sub, locs, k) ==
    {[src_id |-> StrOfCell(sub[query(sub, locs[i].lat, k)[1]].src_id), n |-> i] :
        i \in 1..Len(locs)}

\* nearest_srcs = {str(sub_meta.iloc[idx, 0]) for idx in idxs[:, 0]}: the items the
\* loop "for src_id in nearest_srcs" visits; a set holds each string once (n = 1)
nearest_srcs(sub, locs, k) ==
    {[src_id |-> StrOfCell(sub[query(sub, locs[i].lat, k)[1]].src_id), n |-> 1] :
        i \in 1..Len(locs)}

\* rows[key]["loc_id"], rows[key]["year"], rows[key][f"src_id_{tbl}"] for every location
assign_rows(rws, sub, locs, tbl, yr, k) ==
    {e \in rws : ~(e.year = yr /\ e.tbl = tbl /\ \E i \in 1..Len(locs) : locs[i].loc_id = e.loc_id)}
    \cup {[loc_id |-> locs[i].loc_id, year |-> yr, tbl |-> tbl,
           src_id |-> nearest_station(sub, locs[i].lat, k)] : i \in 1..Len(locs)}

(***************************************************************************)
(* The consolidated map.                                                   *)
(***************************************************************************)
LocRank(loc_id) == IF loc_id = "A" THEN 1 ELSE 2

KeyLess_by_year(a, b) ==
    \/ a[2] < b[2]
    \/ a[2] = b[2] /\ LocRank(a[1]) < LocRank(b[1])

\* the order of sort_values(["loc_id", "year"]) on the keys (loc_id, year)
KeyLess(a, b) ==
    \/ LocRank(a[1]) < LocRank(b[1])
    \/ LocRank(a[1]) = LocRank(b[1]) /\ a[2] < b[2]

RECURSIVE SortKeys(_)
SortKeys(S) ==
    IF S = {} THEN <<>>
    ELSE LET least == CHOOSE a \in S : \A b \in S : a = b \/ KeyLess(a, b)
         IN  <<least>> \o SortKeys(S \ {least})

\* pd.DataFrame(rows.values()).sort_values(["loc_id", "year"]).reset_index(drop=True)
consolidated(rws) ==
    LET keys == SortKeys({<<e.loc_id, e.year>> : e \in rws})
    IN  [n \in 1..Len(keys) |->
            [loc_id |-> keys[n][1], year |-> keys[n][2],
             cols |-> {<<e.tbl, e.src_id>> : e \in {x \in rws :
                          x.loc_id = keys[n][1] /\ x.year = keys[n][2]}}]]

\* "if not good_mask.any(): continue"
NoneActive(sub) == sub = <<>>

\* sort_values raises KeyError on the frame built from no rows: it has no columns
SortFails(rws) == rws = {}

(***************************************************************************)
(* download_locations, download_station_year, _fetch_meta.                 *)
(***************************************************************************)
\* what a caller sees of get_csv called with its defaults, for every way the
\* transport may answer
DefaultResults ==
    {get_csv(rs, DefaultMaxRetries, DefaultBackoff) :
        rs \in [1..DefaultMaxRetries -> Responses]}

\* the result of one get_csv call as its caller uses it: "raise" (with exc),
\* "nocolumns" (the pd.DataFrame() of a 404/500), "norows" (a parsed table
\* without rows) or "rows"
FetchKind(r) ==
    [kind |-> IF r.outcome = "raise" THEN "raise"
              ELSE IF r.outcome = "empty" THEN "nocolumns"
              ELSE IF r.rows = <<>> THEN "norows" ELSE "rows",
     exc |-> r.exc]

FetchKinds == {FetchKind(r) : r \in DefaultResults}

\* df.empty
IsEmpty(f) == f.kind \in {"nocolumns", "norows"}

Propagates_swallowed(f) == FALSE

\* an exception of get_csv is caught by none of its callers
Propagates(f) == f.kind = "raise"

NoRun ==
    [reqs |-> <<>>, calls |-> <<>>, written |-> <<>>, mapWritten |-> FALSE, result |-> <<>>,
     err |-> "none", raisedIn |-> "none", skipped |-> {}, failed |-> 0, fetched |-> {}]

NoArgs == [locations |-> <<>>, years |-> <<>>, tables |-> <<>>, k |-> DefaultK]

NoDf == [src_id |-> StrOfCell(0), empty |-> TRUE]

OrchIdle ==
    /\ module \in {"midas_client", "weather"}
    /\ META_CACHE = {}
    /\ hist = [downloaded |-> {}, redundant |-> FALSE, rewritten |-> FALSE]
    /\ pc = "idle"
    /\ args = NoArgs
    /\ ti = 0
    /\ yi = 0
    /\ rows = {}
    /\ pending = {}
    /\ frames = <<>>
    /\ df = NoDf
    /\ meta_num = <<>>
    /\ run = NoRun
    /\ nruns = 0

\* the arguments a caller may pass
LocationInputs ==
    { <<>>,
      <<[loc_id |-> "A", lat |-> 1], [loc_id |-> "B", lat |-> 3]>>,
      <<[loc_id |-> "A", lat |-> 1], [loc_id |-> "B", lat |-> 8]>> }

YearInputs == { <<>>, <<1>>, <<1, 2>>, <<3, 2>> }

TableInputs ==
    { <<"RD">>, <<"TD", "RD">>, <<"RD", "TD">>, <<"XX", "TD">>, <<"TD", "XX">> }

\* the run ends with an exception: nothing after the raising statement runs
Raised(r, err, where) == [r EXCEPT !.err = err, !.raisedIn = where]

\* a get_csv call for (what, tbl, src, yr) was made and ended as f
Sent(r, what, tbl, src, yr, f) ==
    [r EXCEPT !.reqs = Append(@, <<what, tbl, src, yr>>),
              !.failed = IF @ = 0 /\ f.kind = "raise" /\ f.exc = "RequestException"
                         THEN Len(r.reqs) + 1 ELSE @]

\* accounting of one metadata request: the tables whose metadata the archive has
\* delivered, and whether it was asked again for one of them
NoteMeta(tbl, f) ==
    [hist EXCEPT
       !.downloaded = IF f.kind = "rows" THEN @ \cup {tbl} ELSE @,
       !.redundant = @ \/ tbl \in hist.downloaded]

\* midas_client: "if meta.empty: continue"; weather has no such check
MetaSkipped(f) == module = "midas_client" /\ IsEmpty(f)

\* meta[["src_id", ...]] raises KeyError on a frame without those columns
MetaColumnsMissing(f) == f.kind = "nocolumns"

\* meta_num = meta[[...]].apply(pd.to_numeric, errors="coerce").dropna()
numeric_meta(tbl, f) == IF f.kind = "rows" THEN ArchiveMeta(tbl) ELSE <<>>

\* download_locations up to the table loop
StartRun(locations, years, tables, k) ==
    /\ pc = "idle"
    /\ nruns < MaxRuns
    /\ nruns' = nruns + 1
    /\ args' = [locations |-> locations, years |-> years, tables |-> tables, k |-> k]
    /\ rows' = {}
    /\ pending' = {}
    /\ frames' = <<>>
    /\ df' = NoDf
    /\ meta_num' = <<>>
    /\ yi' = 0
    /\ IF locations = <<>>
       THEN /\ pc' = "raised"
            /\ run' = Raised(NoRun, "ValueError", "locations")
            /\ ti' = 0
       ELSE /\ pc' = "table"
            /\ run' = NoRun
            /\ ti' = 1
    /\ UNCHANGED <<call, parse, auth, module, META_CACHE, hist>>

\* for tbl in tables: the metadata request and what follows it
NextTable ==
    /\ pc = "table"
    /\ UNCHANGED <<call, parse, auth, module, META_CACHE, args, rows, pending, frames, df, nruns>>
    /\ IF ti > Len(args.tables)
       THEN /\ pc' = "consolidate"
            /\ UNCHANGED <<hist, ti, yi, meta_num, run>>
       ELSE LET tbl == args.tables[ti] IN
            IF tbl \notin ConfiguredTables
            THEN /\ pc' = "raised"
                 /\ run' = Raised(run, "KeyError", "settings.midas.tables")
                 /\ UNCHANGED <<hist, ti, yi, meta_num>>
            ELSE \E f \in FetchKinds :
                   LET sent == Sent(run, "meta", tbl, 0, 0, f) IN
                   /\ hist' = NoteMeta(tbl, f)
                   /\ IF Propagates(f)
                      THEN /\ pc' = "raised"
                           /\ run' = Raised(sent, f.exc, "meta")
                           /\ UNCHANGED <<ti, yi, meta_num>>
                      ELSE IF MetaSkipped(f)
                      THEN /\ pc' = "table"
                           /\ run' = [sent EXCEPT !.skipped = @ \cup {<<"meta", tbl, 0>>}]
                           /\ ti' = ti + 1
                           /\ UNCHANGED <<yi, meta_num>>
                      ELSE IF MetaColumnsMissing(f)
                      THEN /\ pc' = "raised"
                           /\ run' = Raised(sent, "KeyError", "meta columns")
                           /\ UNCHANGED <<ti, yi, meta_num>>
                      ELSE /\ pc' = "year"
                           /\ run' = sent
                           /\ yi' = 1
                           /\ meta_num' = numeric_meta(tbl, f)
                           /\ UNCHANGED ti

\* for yr in years: the search for the nearest active stations
NextYear ==
    /\ pc = "year"
    /\ UNCHANGED <<call, parse, auth, module, META_CACHE, hist, args, meta_num, df, nruns>>
    /\ IF yi > Len(args.years)
       THEN /\ pc' = "table"
            /\ ti' = ti + 1
            /\ yi' = 0
            /\ UNCHANGED <<rows, pending, frames, run>>
       ELSE LET tbl == args.tables[ti]
                yr == args.years[yi]
                sub == sub_meta(meta_num, yr)
            IN  IF NoneActive(sub)
                THEN /\ yi' = yi + 1
                     /\ run' = [run EXCEPT !.skipped = @ \cup {<<"year", tbl, yr>>}]
                     /\ UNCHANGED <<pc, ti, rows, pending, frames>>
                ELSE IF QueryFails(sub, args.k)
                THEN /\ pc' = "raised"
                     /\ run' = Raised(run, "ValueError", "query")
                     /\ UNCHANGED <<ti, yi, rows, pending, frames>>
                ELSE /\ rows' = assign_rows(rows, sub, args.locations, tbl, yr, args.k)
                     /\ pending' = nearest_srcs(sub, args.locations, args.k)
                     /\ frames' = <<>>
                     /\ pc' = "station"
                     /\ UNCHANGED <<ti, yi, run>>

\* the answer _fetch_meta gets: the cached snapshot, or what get_csv returns
Cached == [kind |-> "cached", exc |-> "none"]

MetaAnswers(tbl) == IF tbl \in META_CACHE THEN {Cached} ELSE FetchKinds

\* int(station_id) fails on a string that is not an integer literal
IntFails(station_id) == station_id.form # "n"

\* meta.set_index("src_id").loc[int(station_id)] fails for an unknown station
LocFails(tbl, station_id) ==
    \A i \in 1..Len(ArchiveMeta(tbl)) : ArchiveMeta(tbl)[i].src_id # station_id.num

\* _fetch_meta: "if meta_df.empty: raise RuntimeError"
MetaUnavailable(fm) == IsEmpty(fm)

DsyResult(out, exc, where, metaReq, cacheWrite, dataReq) ==
    [out |-> out, exc |-> exc, where |-> where, metaReq |-> metaReq,
     cacheWrite |-> cacheWrite, dataReq |-> dataReq]

\* download_station_year(table, station_id, year), where _fetch_meta is answered
\* fm and the station-year request fd
download_station_year(tbl, station_id, fm, fd) ==
    IF tbl \notin ConfiguredTables
    THEN DsyResult("raise", "KeyError", "table", FALSE, FALSE, FALSE)
    ELSE IF Propagates(fm)
    THEN DsyResult("raise", fm.exc, "_fetch_meta", TRUE, FALSE, FALSE)
    ELSE IF MetaUnavailable(fm)
    THEN DsyResult("raise", "RuntimeError", "_fetch_meta", TRUE, FALSE, FALSE)
    ELSE IF IntFails(station_id)
    THEN DsyResult("raise", "ValueError", "int", fm # Cached, fm # Cached, FALSE)
    ELSE IF LocFails(tbl, station_id)
    THEN DsyResult("raise", "KeyError", "loc", fm # Cached, fm # Cached, FALSE)
    ELSE IF Propagates(fd)
    THEN DsyResult("raise", fd.exc, "data", fm # Cached, fm # Cached, TRUE)
    ELSE IF IsEmpty(fd)
    THEN DsyResult("empty", "none", "none", fm # Cached, fm # Cached, TRUE)
    ELSE DsyResult("rows", "none", "none", fm # Cached, fm # Cached, TRUE)

\* the requests a download_station_year call sent, appended to the run's log
WithRequests(r, d, tbl, station_id, yr, fm, fd) ==
    LET r1 == IF d.metaReq THEN Sent(r, "meta", tbl, 0, 0, fm) ELSE r
    IN  IF d.dataReq THEN Sent(r1, "data", tbl, station_id.num, yr, fd) ELSE r1

\* the cache and the metadata accounting after a download_station_year call
CacheAfter(tbl, d) == IF d.cacheWrite THEN META_CACHE \cup {tbl} ELSE META_CACHE

HistAfter(tbl, d, fm) ==
    LET h == IF d.metaReq THEN NoteMeta(tbl, fm) ELSE hist
    IN  [h EXCEPT !.rewritten = @ \/ (d.cacheWrite /\ tbl \in META_CACHE)]

Appended_always(fr, d, station_id) == Append(fr, station_id.num)

\* "if not df.empty: frames.append(df)"
Appended(fr, d, station_id) == IF d.out = "rows" THEN Append(fr, station_id.num) ELSE fr

\* for src_id in nearest_srcs: one download_station_year call
FetchStation ==
    /\ pc = "station"
    /\ pending # {}
    /\ \E item \in pending, fd \in FetchKinds :
         \E fm \in MetaAnswers(args.tables[ti]) :
           LET tbl == args.tables[ti]
               yr == args.years[yi]
               d == download_station_year(tbl, item.src_id, fm, fd)
               called == [run EXCEPT
                            !.calls = Append(@,
                               [tbl |-> tbl, src |-> item.src_id.num, year |-> yr,
                                out |-> d.out]),
                            !.fetched = @ \cup {[tbl |-> tbl, year |-> yr,
                                                 station_id |-> item.src_id]}]
               sent == WithRequests(called, d, tbl, item.src_id, yr, fm, fd)
           IN  /\ META_CACHE' = CacheAfter(tbl, d)
               /\ hist' = HistAfter(tbl, d, fm)
               /\ IF d.out = "raise"
                  THEN /\ pc' = "raised"
                       /\ run' = Raised(sent, d.exc, d.where)
                       /\ UNCHANGED <<pending, frames, df>>
                  ELSE /\ pc' = "station"
                       /\ run' = sent
                       /\ pending' = pending \ {item}
                       /\ frames' = Appended(frames, d, item.src_id)
                       /\ df' = [src_id |-> item.src_id, empty |-> d.out # "rows"]
    /\ UNCHANGED <<call, parse, auth, module, args, ti, yi, rows, meta_num, nruns>>

\* what the writer is handed for (tbl, yr): midas_client writes df_out, the
\* concatenation of frames; weather writes df, the frame fetched last
written_frame(fr, last) ==
    IF module = "midas_client" THEN Range(fr)
    ELSE IF last.empty THEN {} ELSE {last.src_id.num}

\* after the station loop: "if frames:" the dataset is written
EndYear ==
    /\ pc = "station"
    /\ pending = {}
    /\ pc' = "year"
    /\ yi' = yi + 1
    /\ run' = IF frames # <<>>
              THEN [run EXCEPT !.written = Append(@,
                       [tbl |-> args.tables[ti], year |-> args.years[yi],
                        stations |-> written_frame(frames, df)])]
              ELSE run
    /\ UNCHANGED <<call, parse, auth, module, META_CACHE, hist, args, ti, rows, pending, frames, df,
                   meta_num, nruns>>

\* after the table loop: the consolidated map is built, written and returned
Consolidate ==
    /\ pc = "consolidate"
    /\ IF SortFails(rows)
       THEN /\ pc' = "raised"
            /\ run' = Raised(run, "KeyError", "sort_values")
       ELSE /\ pc' = "done"
            /\ run' = [run EXCEPT !.mapWritten = TRUE, !.result = consolidated(rows)]
    /\ UNCHANGED <<call, parse, auth, module, META_CACHE, hist, args, ti, yi, rows, pending, frames, df,
                   meta_num, nruns>>

\* download_locations has returned or raised: its locals are gone, the module
\* state stays
Return ==
    /\ pc \in {"done", "raised"}
    /\ pc' = "idle"
    /\ args' = NoArgs
    /\ ti' = 0
    /\ yi' = 0
    /\ rows' = {}
    /\ pending' = {}
    /\ frames' = <<>>
    /\ df' = NoDf
    /\ meta_num' = <<>>
    /\ run' = NoRun
    /\ UNCHANGED <<call, parse, auth, module, META_CACHE, hist, nruns>>

\* a caller's own download_station_year call, before or between runs
DirectStationYear(tbl, station_id, yr) ==
    /\ pc = "idle"
    /\ nruns < MaxRuns
    /\ \E fd \in FetchKinds, fm \in MetaAnswers(tbl) :
         LET d == download_station_year(tbl, station_id, fm, fd) IN
         /\ META_CACHE' = IF tbl \in ConfiguredTables THEN CacheAfter(tbl, d) ELSE META_CACHE
         /\ hist' = IF tbl \in ConfiguredTables THEN HistAfter(tbl, d, fm) ELSE hist
    /\ UNCHANGED <<call, parse, auth, module, pc, args, ti, yi, rows, pending, frames, df, meta_num,
                   run, nruns>>

\* no direct call of get_csv or of _read_badc_csv is under way
NoCall ==
    [state |-> "unused", max_retries |-> DefaultMaxRetries,
     backoff_factor |-> DefaultBackoff,
     resps |-> [i \in 1..MaxRetriesArg |-> [status |-> 0, text |-> TextError]],
     result |-> NoResult]

NoParse == [state |-> "unused", raw |-> <<>>, result |-> _read_badc_csv(<<>>)]

\* no MidasSession was constructed yet; os.environ["CEDA_TOKEN"] holds env
NoAuth(env) ==
    [pre |-> env, environ |-> env, objs |-> <<>>, ctors |-> <<>>, posts |-> <<>>,
     bearers |-> <<>>, gets |-> 0]

Init ==
    /\ call = NoCall
    /\ parse = NoParse
    /\ auth = NoAuth("t0")
    /\ OrchIdle

Next ==
    \/ \E locations \in LocationInputs, years \in YearInputs, tables \in TableInputs,
          k \in 1..MaxK : StartRun(locations, years, tables, k)
    \/ NextTable
    \/ NextYear
    \/ FetchStation
    \/ EndYear
    \/ Consolidate
    \/ Return
    \/ \E tbl \in ConfiguredTables \cup {"XX"}, n \in {2, 7}, yr \in {2} :
          DirectStationYear(tbl, StrOfCell(n), yr)

Spec == Init /\ [][Next]_vars

(***************************************************************************)
(* Properties of download_locations, checked under Spec.                   *)
(***************************************************************************)
\* the station-year fetches (download_station_year calls) of the run for (tbl, yr)
CallsFor(tbl, yr) ==
    {n \in 1..Len(run.calls) : run.calls[n].tbl = tbl /\ run.calls[n].year = yr}

\* the station-year requests sent to the archive in the run for (tbl, yr)
DataReqsFor(tbl, yr) ==
    {n \in 1..Len(run.reqs) :
        run.reqs[n][1] = "data" /\ run.reqs[n][2] = tbl /\ run.reqs[n][4] = yr}

\* the stations the query points are mapped to for (tbl, yr)
MapStations(tbl, yr) == {e.src_id.num : e \in {x \in rows : x.tbl = tbl /\ x.year = yr}}

\* the station loop of the j-th year of the i-th table has been left normally
Completed(i, j) ==
    \/ i < ti
    \/ i = ti /\ j < yi
    \/ i = ti /\ j = yi /\ pc = "station" /\ pending = {}

RunPairs == {<<i, j>> : i \in 1..Len(args.tables), j \in 1..Len(args.years)}

\* the row of station src in the archive's metadata of tbl
MetaRows(tbl, src) ==
    {ArchiveMeta(tbl)[i] : i \in {n \in 1..Len(ArchiveMeta(tbl)) :
                                     ArchiveMeta(tbl)[n].src_id = src}}

\* C1: in one run, for every processed (table, year) the station-year fetches are
\* one per distinct nearest station: no station is fetched twice, only mapped
\* stations are fetched, and once the station loop of the pair is over exactly
\* S fetches were issued for the S distinct stations its query points map to.
C1_NoDuplicateFetch ==
    /\ \A n, o \in 1..Len(run.calls) :
         (run.calls[n].tbl = run.calls[o].tbl /\ run.calls[n].src = run.calls[o].src
            /\ run.calls[n].year = run.calls[o].year) => n = o
    /\ \A n \in 1..Len(run.calls) :
         run.calls[n].src \in MapStations(run.calls[n].tbl, run.calls[n].year)
    /\ \A p \in RunPairs :
         LET tbl == args.tables[p[1]]
             yr == args.years[p[2]]
         IN  /\ Cardinality(DataReqsFor(tbl, yr)) <= Cardinality(CallsFor(tbl, yr))
             /\ Completed(p[1], p[2]) =>
                  Cardinality(CallsFor(tbl, yr)) = Cardinality(MapStations(tbl, yr))

C1_Witness ==
    /\ pc = "done"
    /\ Len(args.locations) = 2
    /\ \E p \in RunPairs :
         /\ Cardinality(MapStations(args.tables[p[1]], args.years[p[2]])) = 1
         /\ Cardinality(CallsFor(args.tables[p[1]], args.years[p[2]])) = 1
         /\ Cardinality(DataReqsFor(args.tables[p[1]], args.years[p[2]])) = 1
    /\ \E p \in RunPairs :
         /\ Cardinality(MapStations(args.tables[p[1]], args.years[p[2]])) = 2
         /\ Cardinality(CallsFor(args.tables[p[1]], args.years[p[2]])) = 2

\* C2: every station recorded in the map for a table and year y, and every
\* station fetched for that table and year, is in service in y:
\* first_year <= y <= last_year.
C2_TemporalFiltering ==
    /\ \A e \in rows : \A m \in MetaRows(e.tbl, e.src_id.num) :
         m.first_year <= e.year /\ e.year <= m.last_year
    /\ \A n \in 1..Len(run.calls) : \A m \in MetaRows(run.calls[n].tbl, run.calls[n].src) :
         m.first_year <= run.calls[n].year /\ run.calls[n].year <= m.last_year
    /\ \A e \in rows : MetaRows(e.tbl, e.src_id.num) # {}

\* station 1 of table TD (latitude 2, in service in year 1 only) is the station
\* closest to point A (latitude 1) overall; in year 2 A is mapped to station 2
C2_Witness ==
    /\ \E e \in rows :
         /\ e.tbl = "TD" /\ e.year = 2 /\ e.loc_id = "A" /\ e.src_id.num = 2
         /\ \A i \in 1..Len(ArchiveMeta("TD")) :
              haversine(2, 1) <= haversine(ArchiveMeta("TD")[i].station_latitude, 1)
    /\ \E n \in 1..Len(run.calls) : run.calls[n] =
         [tbl |-> "TD", src |-> 2, year |-> 2, out |-> "rows"]

\* the j-th year of the i-th table was dealt with: its table or the year itself
\* was skipped, or every query point got its station for it
Processed(i, j) ==
    LET tbl == args.tables[i]
        yr == args.years[j]
    IN  \/ <<"meta", tbl, 0>> \in run.skipped
        \/ <<"year", tbl, yr>> \in run.skipped
        \/ \A l \in 1..Len(args.locations) :
             \E e \in rows : e.loc_id = args.locations[l].loc_id /\ e.tbl = tbl /\ e.year = yr

\* the places of download_station_year an exception can come from
StationYearRaises == {"table", "_fetch_meta", "int", "loc", "data"}

\* C9: a station-year fetch that returns empty is absorbed: the station has no
\* rows in the dataset written for its (table, year), the run does not end
\* because of it, the other stations of the pair are still fetched and the
\* later years and tables are still processed.
C9_EmptyStationYearAbsorbed ==
    /\ \A n \in 1..Len(run.written) : \A s \in run.written[n].stations :
         \E o \in 1..Len(run.calls) : run.calls[o] =
            [tbl |-> run.written[n].tbl, src |-> s, year |-> run.written[n].year,
             out |-> "rows"]
    /\ (pc = "raised" /\ run.calls # <<>> /\ run.calls[Len(run.calls)].out = "empty")
          => run.raisedIn \notin StationYearRaises
    /\ \A p \in RunPairs :
         (Completed(p[1], p[2])
            /\ \E n \in CallsFor(args.tables[p[1]], args.years[p[2]]) :
                  run.calls[n].out = "empty")
         => \A s \in MapStations(args.tables[p[1]], args.years[p[2]]) :
              \E n \in CallsFor(args.tables[p[1]], args.years[p[2]]) : run.calls[n].src = s
    /\ pc = "done" => \A p \in RunPairs : Processed(p[1], p[2])

\* stations 2 and 3 of TD are fetched for year 2; one fetch is empty, the other
\* is written, and the next table is processed to the end of the run
C9_Witness ==
    /\ pc = "done"
    /\ args.tables = <<"TD", "RD">>
    /\ \E n, o \in 1..Len(run.calls) :
         /\ n < o
         /\ run.calls[n] = [tbl |-> "TD", src |-> 3, year |-> 2, out |-> "empty"]
         /\ run.calls[o] = [tbl |-> "TD", src |-> 2, year |-> 2, out |-> "rows"]
    /\ \E n \in 1..Len(run.written) :
         run.written[n] = [tbl |-> "TD", year |-> 2, stations |-> {2}]
    /\ \E n \in 1..Len(run.calls) : run.calls[n].tbl = "RD"

\* C10: once a metadata or station-year request of the run has raised the
\* transport error, the run has ended with that error: the request is the last
\* one the run sent, and no consolidated map is written or returned.
C10_TransportFailureAborts ==
    run.failed # 0 =>
      /\ pc = "raised"
      /\ run.err = "RequestException"
      /\ run.failed = Len(run.reqs)
      /\ ~run.mapWritten
      /\ run.result = <<>>

C10_Witness ==
    /\ pc = "raised"
    /\ run.failed = 3
    /\ run.reqs[3][1] = "data"
    /\ Len(run.calls) = 1
    /\ pending # {}
    /\ ti < Len(args.tables)

\* no station of tbl is in service in yr
NoStationActive(tbl, yr) ==
    \A i \in 1..Len(ArchiveMeta(tbl)) :
       ~(ArchiveMeta(tbl)[i].first_year <= yr /\ yr <= ArchiveMeta(tbl)[i].last_year)

\* the run ended with an exception although nothing happened in it but years
\* without active stations being skipped
RaisedByEmptyYears ==
    /\ pc = "raised"
    /\ run.raisedIn = "sort_values"
    /\ run.skipped # {}
    /\ \A s \in run.skipped : s[1] = "year"

\* C6: a year in which no station of a table is active produces no map entry
\* and no station-year fetch for that (table, year), and the run does not raise
\* because of it, also when every requested (table, year) is such a year
\* (stated of midas_client/midas.py, the revision the claim is drawn from).
C6_EmptyYearTolerance ==
    module = "midas_client" =>
    /\ \A tbl \in ConfiguredTables : \A yr \in Range(args.years) :
         (NoStationActive(tbl, yr) \/ <<"year", tbl, yr>> \in run.skipped) =>
            MapStations(tbl, yr) = {} /\ CallsFor(tbl, yr) = {}
    /\ ~RaisedByEmptyYears

\* the run ended with an exception because a metadata request returned empty
RaisedByEmptyMetadata ==
    /\ pc = "raised"
    /\ \/ run.raisedIn = "meta columns"
       \/ run.raisedIn = "_fetch_meta" /\ run.err = "RuntimeError"
       \/ /\ run.raisedIn = "sort_values"
          /\ run.skipped # {}
          /\ \A s \in run.skipped : s[1] = "meta"

\* C7: a table whose metadata request returns empty is skipped (no map entry
\* and no station-year fetch for it), the other tables are still processed and
\* the run completes without raising, whichever tables have empty metadata.
C7_EmptyMetadataNonFatal ==
    /\ \A s \in run.skipped : s[1] = "meta" =>
         /\ \A e \in rows : e.tbl # s[2]
         /\ \A n \in 1..Len(run.calls) : run.calls[n].tbl # s[2]
    /\ ~RaisedByEmptyMetadata

\* C8: once the archive has delivered the metadata of a table it is not asked
\* for it again in the process (every later use is served from the cache), and
\* the table's cache entry is written at most once (stated of
\* midas_client/midas.py, the revision the claim is drawn from).
C8_MetadataMemoised ==
    module = "midas_client" =>
    /\ ~hist.redundant
    /\ ~hist.rewritten

\* the table list of the run holds a name that is not configured
NamesUnknownTable ==
    \E i \in 1..Len(args.tables) : args.tables[i] \notin ConfiguredTables

\* C11: a download_locations call whose table list holds an unknown name,
\* wherever it sits in the list, fails before any archive request is sent and
\* before any dataset or map is written for any table of the call (stated of
\* midas_client/midas.py, the revision the claim is drawn from).
C11_UnknownTableImmediate ==
    (module = "midas_client" /\ NamesUnknownTable) =>
      /\ run.reqs = <<>>
      /\ run.written = <<>>
      /\ ~run.mapWritten
      /\ pc # "done"

\* the position of tbl in the caller's table list
TableIndex(tbl) == CHOOSE i \in 1..Len(args.tables) : args.tables[i] = tbl

\* C12: the station-year fetches of a run follow the caller's table order and,
\* within a table, ascending years, whatever order the years were passed in:
\* of two fetches the earlier one is for an earlier table of the list, or for
\* the same table and the same or an earlier year (stated of
\* midas_client/midas.py, the revision the claim is drawn from).
C12_ProcessingOrder ==
    module = "midas_client" =>
      \A n, o \in 1..Len(run.calls) : n < o =>
        /\ TableIndex(run.calls[n].tbl) <= TableIndex(run.calls[o].tbl)
        /\ run.calls[n].tbl = run.calls[o].tbl => run.calls[n].year <= run.calls[o].year

\* the number of stations of tbl in service in yr
ActiveCount(tbl, yr) == Len(sub_meta(ArchiveMeta(tbl), yr))

\* the station of tbl in service in yr that is nearest to latitude lat
NearestActive(tbl, yr, lat) ==
    LET sub == sub_meta(ArchiveMeta(tbl), yr)
    IN  sub[Ranked(sub, lat, 1..Len(sub))[1]].src_id

\* C18: a (table, year) with at least one but fewer than k active stations does
\* not make download_locations fail: the nearest-station query does not raise
\* for it and, once the pair is processed, every query point is mapped to its
\* nearest active station (stated of midas_client/midas.py, the revision the
\* claim is drawn from).
C18_FewerThanKStations ==
    module = "midas_client" =>
      \A p \in RunPairs :
        LET tbl == args.tables[p[1]]
            yr == args.years[p[2]]
        IN  (/\ tbl \in ConfiguredTables
             /\ 1 <= ActiveCount(tbl, yr)
             /\ ActiveCount(tbl, yr) < args.k) =>
              /\ ~(pc = "raised" /\ run.raisedIn = "query" /\ ti = p[1] /\ yi = p[2])
              /\ (Completed(p[1], p[2]) /\ <<"meta", tbl, 0>> \notin run.skipped) =>
                    \A l \in 1..Len(args.locations) : \E e \in rows :
                       /\ e.loc_id = args.locations[l].loc_id
                       /\ e.tbl = tbl /\ e.year = yr
                       /\ e.src_id.num = NearestActive(tbl, yr, args.locations[l].lat)

\* the dataset written for (tbl, yr), if any
WrittenFor(tbl, yr) ==
    {n \in 1..Len(run.written) : run.written[n].tbl = tbl /\ run.written[n].year = yr}

\* the stations whose station-year fetch for (tbl, yr) returned rows
NonEmptyFetches(tbl, yr) ==
    {run.calls[n].src : n \in {o \in CallsFor(tbl, yr) : run.calls[o].out = "rows"}}

\* C19: the dataset handed to the writer for a (table, year) holds the rows of
\* every station whose fetch for the pair was not empty, and of no other; a
\* processed pair with a non-empty fetch has its dataset written, one whose
\* fetches were all empty has none.
C19_DatasetConsolidation ==
    /\ \A n \in 1..Len(run.written) :
         run.written[n].stations = NonEmptyFetches(run.written[n].tbl, run.written[n].year)
    /\ \A p \in RunPairs :
         LET tbl == args.tables[p[1]]
             yr == args.years[p[2]]
         IN  (tbl \in ConfiguredTables /\ (p[1] < ti \/ (p[1] = ti /\ p[2] < yi))) =>
               (WrittenFor(tbl, yr) # {} <=> NonEmptyFetches(tbl, yr) # {})

\* the station identifiers, as the strings used, of the map column of tbl for yr
MapIds(tbl, yr) == {e.src_id : e \in {x \in rows : x.tbl = tbl /\ x.year = yr}}

\* the station identifiers, as the strings used, download_station_year was called with
FetchedIds(tbl, yr) ==
    {f.station_id : f \in {x \in run.fetched : x.tbl = tbl /\ x.year = yr}}

\* C20: for every processed (table, year) the station identifiers written into
\* the table's map column for that year are exactly the station identifiers
\* the station-year fetches were issued for, compared as the strings the
\* program uses in the two places (stated of midas_client/midas.py, the
\* revision the claim is drawn from).
C20_MapFetchAgreement ==
    module = "midas_client" =>
      \A p \in RunPairs :
        (args.tables[p[1]] \in ConfiguredTables /\ Completed(p[1], p[2])) =>
           MapIds(args.tables[p[1]], args.years[p[2]])
             = FetchedIds(args.tables[p[1]], args.years[p[2]])

\* the archive delivered the metadata snapshot of every table of the run: no
\* table was skipped, and a year was skipped only if the snapshot has no station
\* in service in it
SnapshotDelivered ==
    \A s \in run.skipped : s[1] = "year" /\ NoStationActive(s[2], s[3])

\* the map as a function of the inputs and the snapshot alone: for every query
\* point, requested year and requested table with a station in service that
\* year, the station nearest to the point; tables and years taken as sets
SnapshotRows ==
    {[loc_id |-> args.locations[t[1]].loc_id, year |-> t[3], tbl |-> t[2],
      src_id |-> nearest_station(sub_meta(ArchiveMeta(t[2]), t[3]),
                                 args.locations[t[1]].lat, args.k)] :
        t \in {u \in (1..Len(args.locations)) \X Range(args.tables) \X Range(args.years) :
                 ~NoStationActive(u[2], u[3])}}

\* C13: the map download_locations returns has its rows in strictly ascending
\* (point id, year) order, so no (point id, year) has two rows, and for fixed
\* inputs and a fixed metadata snapshot it is one and the same map in every
\* run: it does not depend on the order in which the tables were processed or
\* the stations of a (table, year) were fetched, nor on what the fetches returned.
C13_MapDeterministic ==
    pc = "done" =>
      /\ \A n, o \in 1..Len(run.result) : n < o =>
           \/ LocRank(run.result[n].loc_id) < LocRank(run.result[o].loc_id)
           \/ /\ run.result[n].loc_id = run.result[o].loc_id
              /\ run.result[n].year < run.result[o].year
      /\ SnapshotDelivered =>
           /\ {<<r.loc_id, r.year>> : r \in Range(run.result)}
                = {<<e.loc_id, e.year>> : e \in SnapshotRows}
           /\ \A n \in 1..Len(run.result) :
                run.result[n].cols =
                  {<<e.tbl, e.src_id>> : e \in {x \in SnapshotRows :
                      x.loc_id = run.result[n].loc_id /\ x.year = run.result[n].year}}

\* tables in the order RD, TD and years in the order 3, 2: four rows, sorted,
\* the rows of year 2 holding the stations of both tables
C13_Witness ==
    /\ pc = "done"
    /\ args.tables = <<"RD", "TD">>
    /\ args.years = <<3, 2>>
    /\ SnapshotDelivered
    /\ Len(run.result) = 4
    /\ run.result[1].loc_id = "A" /\ run.result[1].year = 2
    /\ Cardinality(run.result[1].cols) = 2
    /\ run.result[2].loc_id = "A" /\ run.result[2].year = 3
    /\ run.result[3].loc_id = "B" /\ run.result[3].year = 2
    /\ \E n, o \in 1..Len(run.calls) :
         n < o /\ run.calls[n].src = 3 /\ run.calls[o].src = 2
            /\ run.calls[n].year = run.calls[o].year



(***************************************************************************)
(* MidasSession: its construction and its token.  A token is a string;     *)
(* "none" stands for None (os.getenv of a variable that is not set).       *)
(***************************************************************************)
\* bool(token): None and the empty string are falsy
Truthy(tok) == tok \notin {"none", ""}

\* what the authentication endpoint may answer to the POST of _refresh_token:
\* nothing (requests raises), an error status, or 200 with a JSON body that
\* has no access_token ("missing") or has one
ExchangeAnswers ==
    {[status |-> 0, access_token |-> "missing"], [status |-> 401, access_token |-> "missing"]}
    \cup {[status |-> 200, access_token |-> t] : t \in {"missing", "", "t1", "t2"}}

AuthResult(exc, tok, env, value, posted) ==
    [exc |-> exc, _token |-> tok, environ |-> env, value |-> value, posted |-> posted]

\* MidasSession._refresh_token of object o, the process environment holding env
_refresh_token(o, env, answer) ==
    IF answer.status = 0
    THEN AuthResult("RequestException", o._token, env, "none", TRUE)
    ELSE IF RaisesForStatus(answer.status)
    THEN AuthResult("HTTPError", o._token, env, "none", TRUE)
    ELSE IF answer.access_token = "missing"
    THEN AuthResult("KeyError", o._token, env, "none", TRUE)
    ELSE AuthResult("none", answer.access_token, answer.access_token,
                    answer.access_token, TRUE)

token_always_refresh(o, env, answer) == _refresh_token(o, env, answer)

\* MidasSession.token: return self._token or self._refresh_token()
token(o, env, answer) ==
    IF Truthy(o._token)
    THEN AuthResult("none", o._token, env, o._token, FALSE)
    ELSE _refresh_token(o, env, answer)

\* the attributes a MidasSession instance has when line 13 runs
HasAttribute(name) == name \in {"email", "password", "_token", "token", "_refresh_token"}

\* "if not self.token and (not self.user or not self.password): raise RuntimeError",
\* self.token having evaluated to value
credential_check(o, value) ==
    IF Truthy(value) THEN "ok"
    ELSE IF ~HasAttribute("user") THEN "AttributeError"
    ELSE IF ~o.email \/ ~o.password THEN "RuntimeError"
    ELSE "ok"

\* MidasSession.__init__; email and password are TRUE when the argument or its
\* environment variable gives a value
MidasSession(email, password, env, answer) ==
    LET o == [email |-> email, password |-> password, _token |-> env]
        t == token(o, env, answer)
        made == [o EXCEPT !._token = t._token]
    IN  [outcome |-> IF t.exc # "none" THEN t.exc ELSE credential_check(made, t.value),
         obj |-> made, environ |-> t.environ, posted |-> t.posted]

\* one MidasSession(...) call
Construct(email, password, answer) ==
    /\ Len(auth.ctors) < MaxSessions
    /\ LET c == MidasSession(email, password, auth.environ, answer) IN
       auth' = [auth EXCEPT
                  !.environ = c.environ,
                  !.objs = IF c.outcome = "ok" THEN Append(@, c.obj) ELSE @,
                  !.ctors = Append(@, [pre |-> auth.environ, email |-> email,
                                       password |-> password, outcome |-> c.outcome,
                                       posted |-> c.posted]),
                  !.posts = IF c.posted
                            THEN Append(@, [had |-> auth.environ,
                                            cred |-> <<email, password>>,
                                            answer |-> answer])
                            ELSE @]
    /\ UNCHANGED <<call, parse>>
    /\ UNCHANGED mvars

\* one get_csv call on the i-th session object, up to its first GET:
\* headers = {"Authorization": f"Bearer {self.token}"}
Request(i, answer) ==
    /\ i \in 1..Len(auth.objs)
    /\ auth.gets < MaxRequests
    /\ LET o == auth.objs[i]
           t == token(o, auth.environ, answer)
       IN  auth' = [auth EXCEPT
                      !.environ = t.environ,
                      !.objs[i]._token = t._token,
                      !.gets = @ + 1,
                      !.posts = IF t.posted
                                THEN Append(@, [had |-> o._token,
                                                cred |-> <<o.email, o.password>>,
                                                answer |-> answer])
                                ELSE @,
                      !.bearers = IF t.exc = "none" THEN Append(@, t.value) ELSE @]
    /\ UNCHANGED <<call, parse>>
    /\ UNCHANGED mvars

\* the process starts with CEDA_TOKEN not set, empty, or holding a pre-issued token
InitSession ==
    /\ auth \in {NoAuth(env) : env \in {"none", "", "t0"}}
    /\ call = NoCall
    /\ parse = NoParse
    /\ OrchIdle

NextSession ==
    \/ \E email \in BOOLEAN, password \in BOOLEAN, answer \in ExchangeAnswers :
          Construct(email, password, answer)
    \/ \E i \in 1..MaxSessions, answer \in ExchangeAnswers : Request(i, answer)

SpecSession == InitSession /\ [][NextSession]_vars

(***************************************************************************)
(* Properties of MidasSession, checked under SpecSession.                  *)
(***************************************************************************)
\* a construction with no pre-issued token and the principal or the secret missing
LacksCredentials(c) == ~Truthy(c.pre) /\ (~c.email \/ ~c.password)

\* C14: a MidasSession construction with no pre-issued token and the principal
\* or the secret missing fails with the configuration error of the
\* constructor's own check (RuntimeError), and no authentication exchange was
\* attempted by it.
C14_MissingCredentialsRejected ==
    \A n \in 1..Len(auth.ctors) :
       LacksCredentials(auth.ctors[n]) =>
          /\ auth.ctors[n].outcome = "RuntimeError"
          /\ ~auth.ctors[n].posted

\* the exchanges that succeeded: the endpoint issued a token
GoodPosts ==
    {n \in 1..Len(auth.posts) :
        /\ auth.posts[n].answer.status = 200
        /\ auth.posts[n].answer.access_token # "missing"
        /\ Truthy(auth.posts[n].answer.access_token)}

\* C15: an authentication exchange is performed only by a session that holds
\* no token; at most one exchange of the process succeeds and none follows it;
\* a pre-issued token rules out any exchange; and the token, once present, is
\* the one every session object holds and every request carries as its bearer
\* credential: it never changes.
C15_TokenWriteOnce ==
    /\ \A n \in 1..Len(auth.posts) : ~Truthy(auth.posts[n].had)
    /\ Cardinality(GoodPosts) <= 1
    /\ \A n \in GoodPosts : n = Len(auth.posts)
    /\ Truthy(auth.pre) => auth.posts = <<>> /\ auth.environ = auth.pre
    /\ \A n \in GoodPosts : auth.environ = auth.posts[n].answer.access_token
    /\ \A i \in 1..Len(auth.objs) :
         Truthy(auth.objs[i]._token) /\ auth.objs[i]._token = auth.environ
    /\ \A n \in 1..Len(auth.bearers) : auth.bearers[n] = auth.environ

\* no token at first; the first construction exchanges the credentials for
\* t1, the next one finds the token in the environment, and both requests carry t1
C15_Witness ==
    /\ auth.pre = "none"
    /\ Len(auth.objs) = 2
    /\ Len(auth.posts) = 1
    /\ auth.posts[1].answer.access_token = "t1"
    /\ ~auth.ctors[2].posted
    /\ auth.bearers = <<"t1", "t1">>

InitCsv ==
    /\ call \in [state : {"pending"},
                  max_retries : 0..MaxRetriesArg,
                  backoff_factor : 1..MaxBackoff,
                  resps : [1..MaxRetriesArg -> Responses],
                  result : {NoResult}]
    /\ parse = NoParse
    /\ auth = NoAuth("t0")
    /\ OrchIdle

NextCsv == CallGetCsv

SpecCsv == InitCsv /\ [][NextCsv]_vars

(***************************************************************************)
(* Properties of get_csv, checked under SpecCsv.                           *)
(***************************************************************************)
\* an attempt that fails and is retried: no response, or an error status other
\* than not found / server error
FailedAttempt(resp) == resp.status \in {0, 403, 503}

\* the number of failed attempts the transport produces before its first other answer
LeadingFailures(resps) ==
    Cardinality({i \in 1..Len(resps) : \A j \in 1..i : FailedAttempt(resps[j])})

Returned == call.state = "returned"

\* C3: get_csv makes at most max_retries GET attempts; the delay slept after the
\* i-th failed attempt is backoff_factor * 2^(i-1), one delay per failed attempt
\* that is followed by another attempt and none after the last allowed attempt;
\* two transient failures followed by a good response give the parsed table after
\* exactly 3 attempts and the two delays (base, 2 * base).
C3_RetryBackoff ==
    Returned =>
      LET r == call.result
          n == call.max_retries
          b == call.backoff_factor
          f == LeadingFailures(call.resps)
      IN  /\ r.gets <= n
          /\ Len(r.delays) = (IF f < n THEN f ELSE IF n = 0 THEN 0 ELSE n - 1)
          /\ \A i \in 1..Len(r.delays) :
               r.delays[i] = (IF i = 1 THEN b ELSE 2 * r.delays[i - 1])
          /\ (f >= n /\ n >= 1) =>
               r.outcome = "raise" /\ r.gets = n /\ Len(r.delays) = n - 1
          /\ (f = 2 /\ n >= 3 /\ call.resps[3] = [status |-> 200, text |-> TextRows]) =>
               r.outcome = "table" /\ r.gets = 3 /\ r.delays = <<b, 2 * b>>

C3_Witness ==
    /\ Returned
    /\ call.max_retries = 3
    /\ call.backoff_factor = 2
    /\ call.resps[1].status = 0
    /\ call.resps[2].status = 0
    /\ call.resps[3] = [status |-> 200, text |-> TextRows]
    /\ call.result.outcome = "table"
    /\ call.result.delays = <<2, 4>>

\* C4: a response with status 404 or 500 ends get_csv at once with the empty
\* result: exactly one GET is spent on it, no delay is slept for it and no
\* error is raised, however many attempts failed before it.
C4_EmptyStatusNotRetried ==
    Returned =>
      LET r == call.result
          f == LeadingFailures(call.resps)
      IN  (f < call.max_retries /\ call.resps[f + 1].status \in {404, 500}) =>
            /\ r.outcome = "empty"
            /\ r.exc = "none"
            /\ r.rows = <<>>
            /\ r.gets = f + 1
            /\ Len(r.delays) = f

C4_Witness ==
    /\ Returned
    /\ call.max_retries = 3
    /\ call.resps[1].status = 503
    /\ call.resps[2].status = 500
    /\ call.result.outcome = "empty"
    /\ call.result.gets = 2

\* C5: with max_retries >= 1 every get_csv call ends as a parsed table (after a
\* 200 response), as the empty result (after a 404 or 500 response) or with a
\* raised error; a call whose deciding response has another error status
\* raises the transport error, and only once max_retries attempts were made.
C5_OutcomeTrichotomy ==
    (Returned /\ call.max_retries >= 1) =>
      LET r == call.result IN
      /\ r.outcome \in {"table", "empty", "raise"}
      /\ r.gets >= 1
      /\ r.outcome = "empty" => call.resps[r.gets].status \in {404, 500}
      /\ r.outcome = "table" => call.resps[r.gets].status = 200
      /\ call.resps[r.gets].status \in {403, 503} =>
           /\ r.outcome = "raise"
           /\ r.exc = "RequestException"
           /\ r.gets = call.max_retries

C5_Witness ==
    /\ Returned
    /\ call.max_retries = 3
    /\ \A i \in 1..3 : call.resps[i].status = 403
    /\ call.result.outcome = "raise"
    /\ call.result.gets = 3

\* C16: a 200 response whose text has no marker line ends get_csv with the
\* format error (ValueError) on that attempt: no GET follows it, no delay is
\* slept for it, and the result is not an empty table, whatever max_retries is
\* and however many attempts failed before it.
C16_FormatErrorNotRetried ==
    Returned =>
      LET r == call.result
          f == LeadingFailures(call.resps)
      IN  (f < call.max_retries
             /\ call.resps[f + 1] = [status |-> 200, text |-> TextNoMarker]) =>
            /\ r.outcome = "raise"
            /\ r.exc = "ValueError"
            /\ r.gets = f + 1
            /\ Len(r.delays) = f

\* the first GET answers 200 with a text without marker, with two attempts to spare
C16_Witness ==
    /\ Returned
    /\ call.max_retries = 3
    /\ call.resps[1] = [status |-> 200, text |-> TextNoMarker]
    /\ call.resps[2] = [status |-> 200, text |-> TextRows]
    /\ call.result.outcome = "raise"
    /\ call.result.exc = "ValueError"
    /\ call.result.gets = 1
    /\ call.result.delays = <<>>

(***************************************************************************)
(* Direct calls of _read_badc_csv on archive texts (specification          *)
(* SpecDecode): a preamble, a marker line, a header line, data rows and    *)
(* one footer line.                                                        *)
(***************************************************************************)
\* the sequences over S of length at most n
SeqsUpTo(S, n) == UNION {[1..l -> S] : l \in 0..n}

\* preamble lines: a metadata line, a blank line, a line that starts with the
\* marker word
PreambleLines == {PreambleLine, <<>>, <<"d", "a", "t", "a", ",", "G">>}

\* the marker as archive files may spell it
MarkerLines == {Marker, MarkerLine, <<"D", "a", "t", "a", "\t">>}

\* header lines, each with the column names it stands for
Headers ==
    {[line |-> HeaderLine, names |-> <<<<"s", "r", "c", "_", "i", "d">>, <<"o", "b", "_", "t", "i", "m", "e">>>>],
     [line |-> <<"i", "d", ",", "T", "M">>, names |-> <<<<"i", "d">>, <<"t", "m">>>>]}

\* data rows, each with its fields
DataRows ==
    {[line |-> Row1, fields |-> <<<<"1">>, <<"a">>>>],
     [line |-> Row2, fields |-> <<<<"2">>, <<"b">>>>],
     [line |-> <<"3", ",", " ", "C">>, fields |-> <<<<"3">>, <<" ", "C">>>>]}

\* the text made of the parts
ArchiveText(preamble, marker, header, data) ==
    preamble \o <<marker, header.line>> \o [i \in 1..Len(data) |-> data[i].line]
      \o <<FooterLine>>

InitDecode ==
    /\ parse \in
         {[state |-> "pending", preamble |-> p, marker |-> m, header |-> h, data |-> d,
           raw |-> ArchiveText(p, m, h, d), result |-> NoParse.result] :
             p \in SeqsUpTo(PreambleLines, MaxPreamble), m \in MarkerLines,
             h \in Headers, d \in SeqsUpTo(DataRows, MaxRows)}
    /\ call = NoCall
    /\ auth = NoAuth("t0")
    /\ OrchIdle

\* _read_badc_csv(raw)
Decode ==
    /\ parse.state = "pending"
    /\ parse' = [parse EXCEPT !.state = "decoded", !.result = _read_badc_csv(parse.raw)]
    /\ UNCHANGED <<call, auth>>
    /\ UNCHANGED mvars

NextDecode == Decode

SpecDecode == InitDecode /\ [][NextDecode]_vars

(***************************************************************************)
(* Properties of _read_badc_csv, checked under SpecDecode.                 *)
(***************************************************************************)
\* C17: a text made of a preamble without marker line, a marker line, a header
\* line, N >= 0 data rows and one footer line decodes without error to exactly
\* the N data rows, in order and without the footer, under the header's names
\* lower-cased and trimmed.
C17_DialectDecode ==
    parse.state = "decoded" =>
      /\ parse.result.ok
      /\ parse.result.names = parse.header.names
      /\ Len(parse.result.rows) = Len(parse.data)
      /\ \A i \in 1..Len(parse.data) : parse.result.rows[i] = parse.data[i].fields

\* a blank line and a line starting with the marker word before the marker
\* " DATA ", the header "Src_Id, Ob_Time ", two rows
C17_Witness ==
    /\ parse.state = "decoded"
    /\ parse.preamble = <<<<>>, <<"d", "a", "t", "a", ",", "G">>>>
    /\ parse.marker = MarkerLine
    /\ parse.header.line = HeaderLine
    /\ Len(parse.data) = 2
    /\ parse.result.names = <<<<"s", "r", "c", "_", "i", "d">>, <<"o", "b", "_", "t", "i", "m", "e">>>>
    /\ parse.result.rows = <<<<<<"3">>, <<" ", "C">>>>, <<<<"1">>, <<"a">>>>>>

====
